---- MODULE Spec2Model ----
(***************************************************************************)
(* A model of src/oic/utils/keyio.py: Key / RSA_key / EC_key / HMAC_key,   *)
(* KeyBundle (loading and the time_out / Etag cache) and KeyJar (the        *)
(* issuer -> bundles index and its lookups).                                *)
(*                                                                          *)
(* Python values are represented as follows.                                *)
(*   - a str is a TLA+ string, except issuer identifiers, which are         *)
(*     sequences of one-character strings so that endswith("/"),            *)
(*     issuer[:-1] and issuer + "/" are computed and not looked up;         *)
(*   - None and "" are both "" (the code only tests their truth value);     *)
(*   - a dict is a function whose DOMAIN is the set of its keys;            *)
(*   - a list is a sequence; a KeyBundle and a Key are records of their     *)
(*     attributes; an exception is the name of its class in a field         *)
(*     "raised" ("" when the call returned normally);                       *)
(*   - key material (Key.key) is a record: NoKey for "", an M2Crypto RSA    *)
(*     public key (its e and n as MPI byte strings), or a str secret.       *)
(***************************************************************************)
EXTENDS Integers, Sequences, FiniteSets, TLC

VARIABLES issuer_keys, now, last, threads, revoked

vars == <<issuer_keys, now, last, threads, revoked>>

(***************************************************************************)
(* Bounds of the model.  Time is counted in units of the cache period.     *)
(***************************************************************************)
MaxTime == 3
CacheTime == 1
MaxBundles == 2
MaxRemote == 1

\* The request may take time: time.time() in do_remote is read after it.
Delays == {0, 1}

(***************************************************************************)
(* Strings and numbers (str.lower, jwkest's base64 / MPI conversions)      *)
(***************************************************************************)
lower(s) ==
    CASE s = "RSA" -> "rsa"
      [] s = "EC" -> "ec"
      [] s = "HMAC" -> "hmac"
      [] s = "DSA" -> "dsa"
      [] OTHER -> s

\* base64url text of an unsigned big-endian integer -> the integer.
\* "AAM" is a non-minimal encoding (bytes 00 03) of 3.
base64_to_long(s) ==
    CASE s = "Aw" -> 3
      [] s = "AAM" -> 3
      [] s = "Iw" -> 35
      [] s = "TQ" -> 77
      [] s = "AQAB" -> 65537
      [] OTHER -> 0

\* the integer -> its minimal base64url text.
long_to_base64(n) ==
    CASE n = 3 -> "Aw"
      [] n = 35 -> "Iw"
      [] n = 77 -> "TQ"
      [] n = 65537 -> "AQAB"
      [] OTHER -> ""

RECURSIVE long_to_bytes(_)
long_to_bytes(n) ==
    IF n < 256 THEN <<n>> ELSE Append(long_to_bytes(n \div 256), n % 256)

RECURSIVE bytes_to_long(_)
bytes_to_long(bs) ==
    IF bs = <<>> THEN 0
    ELSE 256 * bytes_to_long(SubSeq(bs, 1, Len(bs) - 1)) + bs[Len(bs)]

\* OpenSSL MPI: 4-byte big-endian length, then the magnitude, with a leading
\* zero byte when the top bit of the magnitude is set.
long_to_mpi(n) ==
    LET mag == long_to_bytes(n)
        body == IF mag[1] >= 128 THEN <<0>> \o mag ELSE mag
    IN  <<0, 0, 0, Len(body)>> \o body

mpi_to_long(m) == bytes_to_long(SubSeq(m, 5, Len(m)))

(***************************************************************************)
(* Key material                                                            *)
(***************************************************************************)
NoKey == [mt |-> "", e |-> <<>>, n |-> <<>>, v |-> ""]

\* M2Crypto.RSA.new_pub_key((e, n))
new_pub_key(e, n) == [mt |-> "rsa", e |-> e, n |-> n, v |-> ""]

\* a str used as key material (an HMAC secret)
StrKey(s) == [mt |-> "str", e |-> <<>>, n |-> <<>>, v |-> s]

(***************************************************************************)
(* class Key and its subclasses.  cls is the Python class of the object.   *)
(***************************************************************************)
Key(cls, kty, alg, use, kid, key) ==
    [cls |-> cls, kty |-> lower(kty), alg |-> alg, use |-> use, kid |-> kid,
     key |-> key, n |-> "", e |-> "", crv |-> "", x |-> "", y |-> ""]

RSA_key(inst) ==
    [Key("RSA_key", inst.kty, inst.alg, inst.use, inst.kid, inst.key)
        EXCEPT !.n = inst.n, !.e = inst.e]

EC_key(inst) ==
    [Key("EC_key", inst.kty, inst.alg, inst.use, inst.kid, inst.key)
        EXCEPT !.crv = inst.crv, !.x = inst.x, !.y = inst.y]

HMAC_key(inst) ==
    Key("HMAC_key", inst.kty, inst.alg, inst.use, inst.kid, inst.key)

\* RSA_key.comp
comp(k) ==
    [k EXCEPT !.key = new_pub_key(long_to_mpi(base64_to_long(k.e)),
                                  long_to_mpi(base64_to_long(k.n)))]

\* RSA_key.decomp
decomp(k) ==
    [k EXCEPT !.n = long_to_base64(mpi_to_long(k.key.n)),
              !.e = long_to_base64(mpi_to_long(k.key.e))]

\* Key.dc is a no-op; only RSA_key overrides it.
dc(k) ==
    IF k.cls = "RSA_key"
    THEN IF k.key # NoKey THEN decomp(k)
         ELSE IF k.n # "" /\ k.e # "" THEN comp(k)
         ELSE k
    ELSE k

K2C == {"rsa", "ec", "hmac"}

K2Cnew(typ, inst) ==
    CASE typ = "rsa" -> RSA_key(inst)
      [] typ = "ec" -> EC_key(inst)
      [] typ = "hmac" -> HMAC_key(inst)

(***************************************************************************)
(* Key-set documents: the lists of JWK dictionaries the sources hold       *)
(***************************************************************************)
Inst(kty, use, kid, key, n, e) ==
    [kty |-> kty, alg |-> "", use |-> use, kid |-> kid, key |-> key,
     n |-> n, e |-> e, crv |-> "", x |-> "", y |-> ""]

JA == Inst("RSA", "sig", "a", NoKey, "Iw", "AQAB")
JB == Inst("rsa", "enc", "b", NoKey, "TQ", "AQAB")
JC == Inst("hmac", "enc", "", StrKey("s1"), "", "")
JD == Inst("DSA", "sig", "d", NoKey, "", "")
JE == Inst("rsa", "sig", "e", NoKey, "AAM", "Aw")

DocAB == <<JA, JB>>
DocC == <<JE, JC>>
DocBad == <<JA, JD>>

Docs == {DocAB, DocC, DocBad}

(***************************************************************************)
(* The sources: what a URL or a file answers during one call               *)
(***************************************************************************)
HttpUrl == "https://idp/jwks"
FileUrl == "file://jwks.json"

\* str.startswith on the source strings of the model
scheme(source) ==
    CASE source = HttpUrl -> "https://"
      [] source = FileUrl -> "file://"
      [] OTHER -> ""

\* mode "ok": the document is served; "notmod": the document is unchanged
\* since the validator "E1" was handed out; "error": a 500; "down": the
\* transport fails and request() raises.
Endpoints ==
    [mode : {"ok"}, doc : {DocAB}, etag : {"", "E1"}, cc : {"", "max-age=1"}]
    \cup [mode : {"ok"}, doc : Docs \ {DocAB}, etag : {""}, cc : {""}]
    \cup [mode : {"notmod"}, doc : {DocAB}, etag : {"E1"}, cc : {""}]
    \cup [mode : {"error", "down"}, doc : {DocC}, etag : {""}, cc : {""}]

\* the endpoint used for a call that contacts no source
Quiet == [mode |-> "error", doc |-> DocC, etag |-> "", cc |-> ""]

\* r = request("GET", self.source, headers={"If-None-Match": etag} if etag)
request(ep, etag) ==
    CASE ep.mode = "down" ->
            [raised |-> "ConnectionError", status_code |-> 0, keys |-> <<>>,
             Etag |-> "", CacheControl |-> ""]
      [] ep.mode = "error" ->
            [raised |-> "", status_code |-> 500, keys |-> <<>>,
             Etag |-> "", CacheControl |-> ""]
      [] ep.mode = "notmod" /\ etag # "" ->
            [raised |-> "", status_code |-> 304, keys |-> <<>>,
             Etag |-> ep.etag, CacheControl |-> ep.cc]
      [] OTHER ->
            [raised |-> "", status_code |-> 200, keys |-> ep.doc,
             Etag |-> ep.etag, CacheControl |-> ep.cc]

\* time.time() after an operation that took d
Later(clk, d) == IF clk + d <= MaxTime THEN clk + d ELSE clk

(***************************************************************************)
(* class KeyBundle                                                         *)
(***************************************************************************)
\* the attributes KeyBundle.__init__ sets first.  refreshed_at and failed
\* are history attributes: the time of the last 200 or 304 answer (0 when
\* there was none), and whether the last request got no such answer.
NewBundle ==
    [keys |-> <<>>, remote |-> FALSE, source |-> "", cache_time |-> CacheTime,
     time_out |-> 0, etag |-> "", cache_control |-> "", refreshed_at |-> 0,
     failed |-> FALSE]

\* KeyBundle.do_keys: returns the list and the exception that ended the loop
RECURSIVE do_keys(_, _)
do_keys(ks, doc) ==
    IF doc = <<>> THEN [keys |-> ks, raised |-> ""]
    ELSE LET inst == Head(doc)
             typ == lower(inst.kty)
         IN  IF typ \notin K2C THEN [keys |-> ks, raised |-> "KeyError"]
             ELSE do_keys(Append(ks, dc(K2Cnew(typ, inst))), Tail(doc))

\* the value every bundle operation returns: the bundle afterwards, the
\* exception raised, the clock, whether a request was sent and its status
Ret(b, raised, clk, fetched, status) ==
    [b |-> b, raised |-> raised, clk |-> clk, fetched |-> fetched,
     status |-> status]

\* do_local_jwk after do_keys returned dk
local_loaded(b, dk, clk) == Ret([b EXCEPT !.keys = dk.keys], dk.raised, clk, 0, -1)

\* KeyBundle.do_local_jwk
do_local_jwk(b, ep, clk) == local_loaded(b, do_keys(b.keys, ep.doc), clk)

\* the branch "r.status_code == 200" of do_remote after do_keys returned dk;
\* b1 has the new time_out
remote_loaded(b1, r, t, dk) ==
    IF dk.raised # "" THEN Ret([b1 EXCEPT !.keys = dk.keys], dk.raised, t, 1, 200)
    ELSE Ret([b1 EXCEPT !.keys = dk.keys,
                        !.etag = IF r.Etag # "" THEN r.Etag ELSE @,
                        !.cache_control =
                            IF r.CacheControl # "" THEN r.CacheControl ELSE @],
             "", t, 1, 200)

\* do_remote that puts off the next request after a failed one as well
remote_answered_backoff(b, r, t) ==
    IF r.raised # ""
    THEN Ret([b EXCEPT !.failed = TRUE, !.time_out = t + b.cache_time],
             r.raised, t, 1, 0)
    ELSE IF r.status_code = 304
    THEN Ret([b EXCEPT !.time_out = t + b.cache_time, !.refreshed_at = t,
                       !.failed = FALSE],
             "", t, 1, 304)
    ELSE IF r.status_code = 200
    THEN remote_loaded([b EXCEPT !.time_out = t + b.cache_time,
                                 !.refreshed_at = t, !.failed = FALSE],
                       r, t, do_keys(b.keys, r.keys))
    ELSE Ret([b EXCEPT !.failed = TRUE, !.time_out = t + b.cache_time],
             "", t, 1, r.status_code)

\* do_remote once request() gave r at time t
remote_answered(b, r, t) ==
    IF r.raised # "" THEN Ret([b EXCEPT !.failed = TRUE], r.raised, t, 1, 0)
    ELSE IF r.status_code = 304
    THEN Ret([b EXCEPT !.time_out = t + b.cache_time, !.refreshed_at = t,
                       !.failed = FALSE],
             "", t, 1, 304)
    ELSE IF r.status_code = 200
    THEN remote_loaded([b EXCEPT !.time_out = t + b.cache_time,
                                 !.refreshed_at = t, !.failed = FALSE],
                       r, t, do_keys(b.keys, r.keys))
    ELSE Ret([b EXCEPT !.failed = TRUE], "", t, 1, r.status_code)

\* KeyBundle.do_remote
do_remote(b, ep, d, clk) == remote_answered(b, request(ep, b.etag), Later(clk, d))

\* update() that sends a request whether the bundle is remote or not
update_fetch(b, ep, d, clk) ==
    IF b.source # "" THEN do_remote([b EXCEPT !.keys = <<>>], ep, d, clk)
    ELSE Ret(b, "", clk, 0, -1)

\* update() that keeps the list: a 200 answer is then merged into it
update_merge(b, ep, d, clk) ==
    IF b.source # ""
    THEN IF b.remote = FALSE THEN do_local_jwk(b, ep, clk)
         ELSE do_remote(b, ep, d, clk)
    ELSE Ret(b, "", clk, 0, -1)

\* KeyBundle.update
update(b, ep, d, clk) ==
    IF b.source # ""
    THEN IF b.remote = FALSE
         THEN do_local_jwk([b EXCEPT !.keys = <<>>], ep, clk)
         ELSE do_remote([b EXCEPT !.keys = <<>>], ep, d, clk)
    ELSE Ret(b, "", clk, 0, -1)

\* "self._keys is not []": the identity of the list against a new list
is_not_new_list(ks) == TRUE

\* _uptodate() that compares with >=
uptodate_ge(b, ep, d, clk) ==
    IF b.remote /\ clk >= b.time_out THEN update(b, ep, d, clk)
    ELSE Ret(b, "", clk, 0, -1)

\* KeyBundle._uptodate
uptodate(b, ep, d, clk) ==
    IF is_not_new_list(b.keys)
    THEN IF b.remote /\ clk > b.time_out THEN update(b, ep, d, clk)
         ELSE Ret(b, "", clk, 0, -1)
    ELSE IF b.remote THEN update(b, ep, d, clk)
    ELSE Ret(b, "", clk, 0, -1)

\* the keys of kind typ, in order
OfKind(ks, typ) == SelectSeq(ks, LAMBDA k : k.kty = typ)

\* the list KeyBundle.get / KeyBundle.keys returns after _uptodate() gave u
selected(typ, u) ==
    [u |-> u,
     ret |-> IF u.raised # "" THEN <<>>
             ELSE IF typ # "" THEN OfKind(u.b.keys, lower(typ))
             ELSE u.b.keys]

\* KeyBundle.get and KeyBundle.keys (typ = ""): the bundle operation's value
\* plus the list returned
KB_get(b, typ, ep, d, clk) == selected(typ, uptodate(b, ep, d, clk))

\* KeyBundle.remove
KB_remove(b, typ, val) ==
    IF val # NoKey
    THEN [b EXCEPT !.keys = SelectSeq(@, LAMBDA k :
                                ~(k.kty = lower(typ) /\ k.key = val))]
    ELSE [b EXCEPT !.keys = SelectSeq(@, LAMBDA k : ~(k.kty = lower(typ)))]

\* a new bundle holding what do_keys returned
loaded(dk) == [b |-> [NewBundle EXCEPT !.keys = dk.keys], raised |-> dk.raised]

\* KeyBundle(keys=doc): a bundle built from a list in memory
KeyBundle_keys(doc) ==
    IF doc # <<>> THEN loaded(do_keys(<<>>, doc))
    ELSE [b |-> NewBundle, raised |-> ""]

\* the constructor's value from the value of the bundle operation it ran
constructed(r) == [b |-> r.b, raised |-> r.raised]

\* KeyBundle(source=url): a file is read at once, a URL is not fetched
KeyBundle_source(url, ep) ==
    IF scheme(url) = "file://"
    THEN constructed(do_local_jwk([NewBundle EXCEPT !.source = "jwks.json"],
                                  ep, 0))
    ELSE IF scheme(url) = "https://"
    THEN [b |-> [NewBundle EXCEPT !.source = url, !.remote = TRUE],
          raised |-> ""]
    ELSE IF url = "" THEN [b |-> NewBundle, raised |-> ""]
    ELSE [b |-> NewBundle, raised |-> "Exception"]

(***************************************************************************)
(* dict and str helpers                                                    *)
(***************************************************************************)
EmptyDict == [k \in {} |-> <<>>]

\* d[k] = v
DictSet(d, k, v) == [x \in DOMAIN d \cup {k} |-> IF x = k THEN v ELSE d[x]]

\* issuer identifiers: "" is the holder of the jar itself
Self == <<>>
IssX == <<"x">>
IssXSlash == <<"x", "/">>
Issuers == {Self, IssX, IssXSlash}

endswith_slash(issuer) == issuer # <<>> /\ issuer[Len(issuer)] = "/"

(***************************************************************************)
(* class KeyJar.  jar is the dict issuer_keys.                             *)
(***************************************************************************)
\* one entry of the log of bundle reads a call made: the dict key and the
\* position of the bundle, the time of the read, the bundle before and
\* after, whether a request was sent, its status, the exception, the list
\* the read returned
ReadEntry(at, idx, clk, b, g) ==
    [at |-> at, idx |-> idx, t |-> clk, pre |-> b, post |-> g.u.b,
     fetched |-> g.u.fetched, status |-> g.u.status, raised |-> g.u.raised,
     ret |-> g.ret]

\* the inner loop of KeyJar.get without key_type:
\*   res[key.kty].append(key.key) / res[key.kty] = [key.key]
RECURSIVE add_by_kty(_, _, _)
add_by_kty(res, ks, use) ==
    IF ks = <<>> THEN res
    ELSE LET key == Head(ks)
         IN  IF use = key.use
             THEN add_by_kty(
                    IF key.kty \in DOMAIN res
                    THEN [res EXCEPT ![key.kty] = Append(@, key.key)]
                    ELSE DictSet(res, key.kty, <<key.key>>),
                    Tail(ks), use)
             ELSE add_by_kty(res, Tail(ks), use)

\* the inner loop of KeyJar.get with key_type: lst.append(key.key)
RECURSIVE add_to_lst(_, _, _)
add_to_lst(lst, ks, use) ==
    IF ks = <<>> THEN lst
    ELSE LET key == Head(ks)
         IN  add_to_lst(IF use = key.use THEN Append(lst, key.key) ELSE lst,
                        Tail(ks), use)

\* "for bundles in _keys": S carries the list of bundles (updated by the
\* reads), the clock, the exception, the log, and lst / res
RECURSIVE scan(_, _, _, _, _, _, _)

\* S after the read g of its i-th bundle
scan_read(S, i, at, g) ==
    [S EXCEPT !.bs[i] = g.u.b, !.clk = g.u.clk, !.raised = g.u.raised,
              !.reads = Append(@, ReadEntry(at, i, S.clk, S.bs[i], g))]

\* S after the inner loop over the list ks the read returned
scan_keys(S, use, key_type, ks) ==
    IF key_type # "" THEN [S EXCEPT !.lst = add_to_lst(@, ks, use)]
    ELSE [S EXCEPT !.res = add_by_kty(@, ks, use)]

\* one round of the loop, the read of the i-th bundle being g
scan_round(S, i, use, key_type, at, ep, d, g) ==
    IF g.u.raised # "" THEN scan_read(S, i, at, g)
    ELSE scan(scan_keys(scan_read(S, i, at, g), use, key_type, g.ret),
              i + 1, use, key_type, at, ep, d)

scan(S, i, use, key_type, at, ep, d) ==
    IF i > Len(S.bs) \/ S.raised # "" THEN S
    ELSE scan_round(S, i, use, key_type, at, ep, d,
                    KB_get(S.bs[i], key_type, ep, d, S.clk))

\* the value every jar operation returns
JRet(jar, res, raised, clk, reads) ==
    [jar |-> jar, res |-> res, raised |-> raised, clk |-> clk, reads |-> reads]

\* no aliasing of the usage
norm_use_none(use) == use

\* "dec" -> "enc", "ver" -> "sig"
norm_use(use) ==
    IF use = "dec" THEN "enc" ELSE IF use = "ver" THEN "sig" ELSE use

\* the dict key under which KeyJar.get finds _keys; Missing when every
\* lookup raised KeyError and _keys = [], Raises when the KeyError escapes
Missing == <<"missing">>
Raises == <<"raises">>

\* a lookup that tries the exact identifier only
find_issuer_exact(jar, issuer) ==
    IF issuer \in DOMAIN jar THEN issuer
    ELSE IF issuer # Self THEN Missing ELSE Raises

find_issuer(jar, issuer) ==
    IF issuer # Self
    THEN IF issuer \in DOMAIN jar THEN issuer
         ELSE IF endswith_slash(issuer)
         THEN IF SubSeq(issuer, 1, Len(issuer) - 1) \in DOMAIN jar
              THEN SubSeq(issuer, 1, Len(issuer) - 1)
              ELSE Missing
         ELSE IF Append(issuer, "/") \in DOMAIN jar
              THEN Append(issuer, "/")
              ELSE Missing
    ELSE IF issuer \in DOMAIN jar THEN issuer ELSE Raises

\* the value of KeyJar.get when the loop over the bundles ended in S
scanned(jar, at, key_type, S) ==
    IF S.raised # ""
    THEN JRet([jar EXCEPT ![at] = S.bs], EmptyDict, S.raised, S.clk, S.reads)
    ELSE JRet([jar EXCEPT ![at] = S.bs],
              IF key_type # "" THEN DictSet(EmptyDict, key_type, S.lst)
              ELSE S.res,
              "", S.clk, S.reads)

\* KeyJar.get once use is normalised and _keys is looked up (at)
get_at(jar, use, key_type, at, ep, d, clk) ==
    IF at = Raises THEN JRet(jar, EmptyDict, "KeyError", clk, <<>>)
    ELSE IF at = Missing \/ jar[at] = <<>>
    THEN JRet(jar, EmptyDict, "", clk, <<>>)
    ELSE scanned(jar, at, key_type,
                 scan([bs |-> jar[at], clk |-> clk, raised |-> "",
                       reads |-> <<>>, lst |-> <<>>, res |-> EmptyDict],
                      1, use, key_type, at, ep, d))

\* KeyJar.get
KJ_get(jar, use0, key_type, issuer, ep, d, clk) ==
    get_at(jar, norm_use(use0), key_type, find_issuer(jar, issuer), ep, d, clk)

\* get_verify_key / get_decrypt_key, found by getattr(self, "get_%s_key")
x_use(var) == IF var = "verify" THEN "ver" ELSE "dec"

\* x_keys() that adds only the keys of the holder it has not got yet
RECURSIVE extend_uniq(_, _)
extend_uniq(lst, val) ==
    IF val = <<>> THEN lst
    ELSE extend_uniq(IF \E i \in 1..Len(lst) : lst[i] = Head(val) THEN lst
                     ELSE Append(lst, Head(val)),
                     Tail(val))

\* the dict x_keys returns: keys is that of the party, mine that of the holder
extended_uniq(keys, mine) ==
    [kty \in DOMAIN keys \cup {k \in DOMAIN mine : mine[k] # <<>>} |->
       IF kty \in DOMAIN keys
       THEN IF kty \in DOMAIN mine /\ mine[kty] # <<>>
            THEN extend_uniq(keys[kty], mine[kty])
            ELSE keys[kty]
       ELSE mine[kty]]

\* "for key, val in getattr(self, ...)(key_type="").items()": keys[key]
\* is extended by val, or set to val if val is not empty
extended(keys, mine) ==
    [kty \in DOMAIN keys \cup {k \in DOMAIN mine : mine[k] # <<>>} |->
       IF kty \in DOMAIN keys
       THEN IF kty \in DOMAIN mine /\ mine[kty] # <<>>
            THEN keys[kty] \o mine[kty]
            ELSE keys[kty]
       ELSE mine[kty]]

\* x_keys when the party's keys are r1 and the holder's keys are r2
x_merged(r1, r2) ==
    IF r2.raised # ""
    THEN JRet(r2.jar, EmptyDict, r2.raised, r2.clk, r1.reads \o r2.reads)
    ELSE JRet(r2.jar, extended(r1.res, r2.res), "", r2.clk,
              r1.reads \o r2.reads)

\* x_keys when the party's keys are r1
x_party(var, ep, d, r1) ==
    IF r1.raised # "" THEN r1
    ELSE x_merged(r1, KJ_get(r1.jar, x_use(var), "", Self, ep, d, r1.clk))

\* KeyJar.x_keys
x_keys(jar, var, part, ep, d, clk) ==
    x_party(var, ep, d, KJ_get(jar, x_use(var), "", part, ep, d, clk))

\* list.remove of the element at position i (the bundle object itself)
RemoveAt(s, i) == SubSeq(s, 1, i - 1) \o SubSeq(s, i + 1, Len(s))

\* "for kc in kcs": the list iterator holds a position, and the list is
\* the one the loop body removes from
RECURSIVE remove_loop(_, _, _, _)
remove_loop(kcs, i, key_type, key) ==
    IF i > Len(kcs) THEN kcs
    ELSE LET kc == KB_remove(kcs[i], key_type, key)
             kcs1 == [kcs EXCEPT ![i] = kc]
         IN  IF Len(kc.keys) = 0
             THEN remove_loop(RemoveAt(kcs1, i), i + 1, key_type, key)
             ELSE remove_loop(kcs1, i + 1, key_type, key)

\* KeyJar.remove_key
remove_key(jar, issuer, key_type, key) ==
    IF issuer \notin DOMAIN jar THEN jar
    ELSE [jar EXCEPT ![issuer] = remove_loop(@, 1, key_type, key)]

\* KeyJar.add_kb, and the append of KeyJar.add
add_kb(jar, issuer, kb) ==
    IF issuer \in DOMAIN jar THEN [jar EXCEPT ![issuer] = Append(@, kb)]
    ELSE DictSet(jar, issuer, <<kb>>)

\* KeyJar.__contains__
contains(jar, item) == item \in DOMAIN jar

(***************************************************************************)
(* Serialization, symmetric keys, keys from local files, provider metadata *)
(***************************************************************************)
\* the attribute "members" of the class of a key
members(cls) ==
    CASE cls = "RSA_key" -> {"kty", "alg", "use", "kid", "n", "e"}
      [] cls = "EC_key" -> {"kty", "alg", "use", "kid", "crv", "x", "y"}
      [] OTHER -> {"kty", "alg", "use", "kid"}

\* Key.to_dict: the members that are set.  A name the dict does not hold
\* reads as the default of the constructor it is passed to ("" / no key).
to_dict(k) ==
    [f \in {"kty", "alg", "use", "kid", "key", "n", "e", "crv", "x", "y"} |->
        IF f \in members(k.cls) THEN k[f]
        ELSE IF f = "key" THEN NoKey ELSE ""]

\* [k.to_dict() for k in self._keys]
dicts(ks) == [i \in 1..Len(ks) |-> to_dict(ks[i])]

\* the list KeyBundle.jwks serializes after _uptodate() gave u
serialized(u) ==
    [u |-> u, ret |-> IF u.raised # "" THEN <<>> ELSE dicts(u.b.keys)]

\* KeyBundle.jwks
KB_jwks(b, ep, d, clk) == serialized(uptodate(b, ep, d, clk))

\* the key object an RSA key file holds
FileKey == new_pub_key(long_to_mpi(65537), long_to_mpi(35))

\* RSA_key() with .key and .use assigned afterwards
RSA_key_of(key, use) ==
    [Key("RSA_key", "rsa", "", use, "", key) EXCEPT !.n = "", !.e = ""]

\* keybundle_from_local_file(filename, typ, usage): one RSA_key per usage,
\* all holding the key object loaded from the file
keybundle_from_local_file(typ, usage) ==
    IF lower(typ) = "rsa"
    THEN [b |-> [NewBundle EXCEPT
                   !.keys = [i \in 1..Len(usage) |->
                               RSA_key_of(FileKey, usage[i])]],
          raised |-> ""]
    ELSE [b |-> NewBundle, raised |-> "Exception"]

\* the JWK dictionary add_hmac builds
hmac_inst(key, use) ==
    [kty |-> "hmac", alg |-> "", use |-> use, kid |-> "", key |-> key,
     n |-> "", e |-> "", crv |-> "", x |-> "", y |-> ""]

\* "for use in usage: self.issuer_keys[""].append(KeyBundle([...]))"
RECURSIVE add_hmac_loop(_, _, _)
add_hmac_loop(jar, key, usage) ==
    IF usage = <<>> THEN [jar |-> jar, raised |-> ""]
    ELSE IF <<>> \notin DOMAIN jar THEN [jar |-> jar, raised |-> "KeyError"]
    ELSE add_hmac_loop(
           [jar EXCEPT ![<<>>] =
              Append(@, KeyBundle_keys(<<hmac_inst(key, Head(usage))>>).b)],
           key, Tail(usage))

\* KeyJar.add_hmac
add_hmac(jar, issuer, key, usage) ==
    add_hmac_loop(IF issuer \notin DOMAIN jar THEN DictSet(jar, issuer, <<>>)
                  ELSE jar,
                  key, usage)

\* KeyJar.add on a jar: the bundle is appended unless its constructor raised
added(jar, issuer, kc) ==
    IF kc.raised # "" THEN [jar |-> jar, raised |-> kc.raised]
    ELSE [jar |-> add_kb(jar, issuer, kc.b), raised |-> ""]

\* provider metadata is a dict that may hold "jwks_uri"
NoUri == [k \in {"issuer"} |-> "x"]
WithUri(url) == [k \in {"issuer", "jwks_uri"} |-> IF k = "issuer" THEN "x" ELSE url]

\* "except KeyError: pass"
except_KeyError(r) == [r EXCEPT !.raised = IF @ = "KeyError" THEN "" ELSE @]

\* load_keys after the entry of the issuer was created or emptied:
\* pcr["jwks_uri"] raises KeyError when the dict does not hold it
load_keys_add(jar, pcr, issuer) ==
    IF "jwks_uri" \in DOMAIN pcr
    THEN except_KeyError(added(jar, issuer,
                               KeyBundle_source(pcr["jwks_uri"], Quiet)))
    ELSE except_KeyError([jar |-> jar, raised |-> "KeyError"])

\* KeyJar.load_keys
load_keys(jar, pcr, issuer, replace) ==
    load_keys_add(IF issuer \notin DOMAIN jar THEN DictSet(jar, issuer, <<>>)
                  ELSE IF replace THEN [jar EXCEPT ![issuer] = <<>>]
                  ELSE jar,
                  pcr, issuer)

(***************************************************************************)
(* The state machine: one KeyJar, the clock, and the call whose value the  *)
(* (single-threaded) caller holds.  A call is made when the caller holds   *)
(* none; Return is the caller dropping the value.                          *)
(***************************************************************************)
Uses == {"sig", "ver", "enc", "dec"}
KeyTypes == {"", "RSA", "hmac"}
Urls == {HttpUrl}
Secrets == {StrKey("s1")}

RECURSIVE SumLen(_, _)
SumLen(jar, S) ==
    IF S = {} THEN 0
    ELSE LET i == CHOOSE x \in S : TRUE
         IN  Len(jar[i]) + SumLen(jar, S \ {i})

NBundles(jar) == SumLen(jar, DOMAIN jar)

NRemote(jar) ==
    SumLen([i \in DOMAIN jar |-> SelectSeq(jar[i], LAMBDA b : b.remote)],
           DOMAIN jar)

\* the call made last: its name and arguments, what the sources answered
\* during it (ep), the exception it raised, the dict (res) or list (ret) it
\* returned, the log of its bundle reads, for remove_key the issuer's
\* list before the call, and for add_hmac / load_keys / KeyBundle(keys) the
\* issuer map before the call (jar) and the other arguments (args)
Call(op, use, key_type, issuer, idx, key, raised, res, ret, reads) ==
    [op |-> op, use |-> use, key_type |-> key_type, issuer |-> issuer,
     idx |-> idx, key |-> key, raised |-> raised, res |-> res, ret |-> ret,
     reads |-> reads, before |-> <<>>, ep |-> Quiet, jar |-> EmptyDict,
     args |-> <<>>]

Idle == Call("", "", "", Self, 0, NoKey, "", EmptyDict, <<>>, <<>>)

\* a bundle whose next read sends a request
Stale(b, clk) == b.remote /\ clk > b.time_out

\* a read of the bundles of issuer (as KeyJar.get finds them) may send one
MayFetch(jar, issuer, clk) ==
    LET at == find_issuer(jar, issuer)
    IN  /\ at \in DOMAIN jar
        /\ \E i \in 1..Len(jar[at]) : Stale(jar[at][i], clk)

\* The threads that call into a KeyBundle at the same time: for each, the
\* call it is in (op, typ), the statement it is at (pc), its locals (the
\* answer r of request(), the rest of the list do_keys iterates over), the
\* value returned or the exception raised, and as history the list the
\* bundle held when its update() began (old), whether it sent a request,
\* and the refreshes (old and r of their threads) that were under way when
\* its get() returned (during).
Threads == {1, 2}

NoAnswer ==
    [raised |-> "", status_code |-> 0, keys |-> <<>>, Etag |-> "",
     CacheControl |-> ""]

IdleThread ==
    [pc |-> "idle", op |-> "", typ |-> "", r |-> NoAnswer, doc |-> <<>>,
     ret |-> <<>>, raised |-> "", old |-> <<>>, fetched |-> FALSE,
     during |-> {}]

\* revoked is history: the (issuer, kind) pairs of the revocations that are
\* followed.  A call that registers keys for an issuer, under its
\* identifier with or without the trailing slash, ends those of the issuer.
SameParty(a, b) == a = b \/ a = Append(b, "/") \/ b = Append(a, "/")

InForce(issuer) == {r \in revoked : ~SameParty(r.issuer, issuer)}

Init ==
    /\ issuer_keys = EmptyDict
    /\ now = 1
    /\ last = Idle
    /\ threads = [t \in Threads |-> IdleThread]
    /\ revoked = {}

\* time passes
Tick ==
    /\ last = Idle
    /\ now < MaxTime
    /\ now' = now + 1
    /\ UNCHANGED <<issuer_keys, last, threads, revoked>>

\* the caller is done with the value of the last call
Return ==
    /\ last # Idle
    /\ last' = Idle
    /\ UNCHANGED <<issuer_keys, now, threads, revoked>>

\* the jar and the call record after a bundle was constructed (kc) and added
Added(op, issuer, kc) ==
    /\ issuer_keys' = IF kc.raised # "" THEN issuer_keys
                      ELSE add_kb(issuer_keys, issuer, kc.b)
    /\ last' = Call(op, "", "", issuer, 0, NoKey, kc.raised, EmptyDict,
                    <<>>, <<>>)
    /\ revoked' = InForce(issuer)
    /\ UNCHANGED <<now, threads>>

\* KeyJar.add(issuer, url)
Add(issuer, url, max) ==
    /\ last = Idle
    /\ NBundles(issuer_keys) < max
    /\ NRemote(issuer_keys) < MaxRemote
    /\ Added("add", issuer, KeyBundle_source(url, Quiet))

\* KeyJar.add_kb(issuer, KeyBundle(doc))
AddKb(issuer, doc, max) ==
    /\ last = Idle
    /\ NBundles(issuer_keys) < max
    /\ Added("add_kb", issuer, KeyBundle_keys(doc))

\* the jar, the clock and the call record after a jar operation returned r
Returned(op, use, key_type, issuer, ep, r) ==
    /\ issuer_keys' = r.jar
    /\ now' = r.clk
    /\ last' = [Call(op, use, key_type, issuer, 0, NoKey, r.raised, r.res,
                     <<>>, r.reads)
                  EXCEPT !.ep = ep]
    /\ UNCHANGED <<threads, revoked>>

\* the answers and delays a call is made under: those given when it may
\* send a request, one otherwise
Answers(f, EP) == IF f THEN EP ELSE {Quiet}
DelaysOf(f, DL) == IF f THEN DL ELSE {0}

\* KeyJar.get(use, key_type, issuer)
Get(use, key_type, issuer, EP, DL) ==
    /\ last = Idle
    /\ \E ep \in Answers(MayFetch(issuer_keys, issuer, now), EP),
          d \in DelaysOf(MayFetch(issuer_keys, issuer, now), DL) :
         Returned("get", use, key_type, issuer, ep,
                  KJ_get(issuer_keys, use, key_type, issuer, ep, d, now))

\* KeyJar.verify_keys(part) / KeyJar.decrypt_keys(part)
XKeys(var, part, EP, DL) ==
    /\ last = Idle
    /\ \E ep \in Answers(MayFetch(issuer_keys, part, now)
                           \/ MayFetch(issuer_keys, Self, now), EP),
          d \in DelaysOf(MayFetch(issuer_keys, part, now)
                           \/ MayFetch(issuer_keys, Self, now), DL) :
         Returned(var, x_use(var), "", part, ep,
                  x_keys(issuer_keys, var, part, ep, d, now))

\* the jar and the call record after remove_key(issuer, key_type, key)
Removed(issuer, key_type, key) ==
    /\ issuer_keys' = remove_key(issuer_keys, issuer, key_type, key)
    /\ last' = [Call("remove_key", "", key_type, issuer, 0, key, "",
                     EmptyDict, <<>>, <<>>)
                  EXCEPT !.before = IF issuer \in DOMAIN issuer_keys
                                    THEN issuer_keys[issuer] ELSE <<>>]
    /\ UNCHANGED <<now, threads>>

\* KeyJar.remove_key(issuer, key_type, key)
RemoveKey(issuer, key_type, key) ==
    /\ last = Idle
    /\ Removed(issuer, key_type, key)
    /\ UNCHANGED revoked

\* KeyJar.remove_key(issuer, key_type, None), followed from then on: the
\* revocation is kept in revoked until the issuer is registered again
Revoke(issuer, key_type) ==
    /\ last = Idle
    /\ Removed(issuer, key_type, NoKey)
    /\ revoked' = revoked \cup {[issuer |-> issuer, kind |-> lower(key_type)]}

\* the jar, the clock and the call record after an operation on the idx-th
\* bundle of an issuer gave g
Read(op, issuer, idx, typ, ep, g) ==
    /\ issuer_keys' = [issuer_keys EXCEPT ![issuer][idx] = g.u.b]
    /\ now' = g.u.clk
    /\ last' = [Call(op, "", typ, issuer, idx, NoKey, g.u.raised, EmptyDict,
                     g.ret,
                     <<ReadEntry(issuer, idx, now, issuer_keys[issuer][idx],
                                 g)>>)
                  EXCEPT !.ep = ep]
    /\ UNCHANGED <<threads, revoked>>

\* KeyBundle.get(typ) on the idx-th bundle of an issuer
Select(issuer, idx, typ, EP, DL) ==
    /\ last = Idle
    /\ issuer \in DOMAIN issuer_keys
    /\ idx \in 1..Len(issuer_keys[issuer])
    /\ \E ep \in Answers(Stale(issuer_keys[issuer][idx], now), EP),
          d \in DelaysOf(Stale(issuer_keys[issuer][idx], now), DL) :
         Read("select", issuer, idx, typ, ep,
              KB_get(issuer_keys[issuer][idx], typ, ep, d, now))

\* the value of update() in the form of a read that returns no list
no_list(u) == [u |-> u, ret |-> <<>>]

\* KeyBundle.update() on the idx-th bundle of an issuer
Update(issuer, idx, EP, DL) ==
    /\ last = Idle
    /\ issuer \in DOMAIN issuer_keys
    /\ idx \in 1..Len(issuer_keys[issuer])
    /\ issuer_keys[issuer][idx].source # ""
    /\ \E ep \in EP, d \in DL :
         Read("update", issuer, idx, "", ep,
              no_list(update(issuer_keys[issuer][idx], ep, d, now)))

\* the jar and the call record after an operation that registers returned r
Changed(op, issuer, key, args, r) ==
    /\ issuer_keys' = r.jar
    /\ last' = [Call(op, "", "", issuer, 0, key, r.raised, EmptyDict, <<>>,
                     <<>>)
                  EXCEPT !.jar = issuer_keys, !.args = args]
    /\ revoked' = InForce(issuer)
    /\ UNCHANGED <<now, threads>>

\* KeyJar.add_hmac(issuer, key, usage)
AddHmac(issuer, key, usage, max) ==
    /\ last = Idle
    /\ NBundles(issuer_keys) + Len(usage) <= max
    /\ Changed("add_hmac", issuer, key, usage,
               add_hmac(issuer_keys, issuer, key, usage))

\* KeyJar.load_keys(pcr, issuer, replace)
LoadKeys(pcr, issuer, replace, max) ==
    /\ last = Idle
    /\ "jwks_uri" \in DOMAIN pcr =>
          /\ NBundles(issuer_keys) < max
          /\ NRemote(issuer_keys) < MaxRemote
    /\ Changed("load_keys", issuer, NoKey, <<pcr, replace>>,
               load_keys(issuer_keys, pcr, issuer, replace))

\* KeyJar.add_kb(issuer, keybundle_from_local_file(filename, typ, usage))
AddLocal(issuer, typ, usage, max) ==
    /\ last = Idle
    /\ NBundles(issuer_keys) < max
    /\ Changed("add_local", issuer, NoKey, usage,
               added(issuer_keys, issuer,
                     keybundle_from_local_file(typ, usage)))

\* KeyBundle.jwks() on the idx-th bundle of an issuer
Jwks(issuer, idx, EP, DL) ==
    /\ last = Idle
    /\ issuer \in DOMAIN issuer_keys
    /\ idx \in 1..Len(issuer_keys[issuer])
    /\ \E ep \in Answers(Stale(issuer_keys[issuer][idx], now), EP),
          d \in DelaysOf(Stale(issuer_keys[issuer][idx], now), DL) :
         Read("jwks", issuer, idx, "", ep,
              KB_jwks(issuer_keys[issuer][idx], ep, d, now))

\* KeyJar.add_kb(issuer, KeyBundle(keys)) with the list the caller got from
\* jwks(); the call record keeps the bundle that was serialized
FromJwks(issuer, max) ==
    /\ last.op = "jwks"
    /\ last.raised = ""
    /\ NBundles(issuer_keys) < max
    /\ issuer_keys' = added(issuer_keys, issuer, KeyBundle_keys(last.ret)).jar
    /\ last' = [Call("from_jwks", "", "", issuer, 0, NoKey,
                     KeyBundle_keys(last.ret).raised, EmptyDict, <<>>, <<>>)
                  EXCEPT !.jar = issuer_keys, !.args = last.ret,
                         !.before = <<issuer_keys[last.issuer][last.idx]>>]
    /\ revoked' = InForce(issuer)
    /\ UNCHANGED <<now, threads>>

\* A KeyJar with up to MaxBundles bundles under three issuers; the sources
\* answer one of JarEndpoints.
JarEndpoints ==
    {ep \in Endpoints : ep.mode # "ok" \/ ep.doc = DocC
                          \/ (ep.etag = "E1" /\ ep.cc = "")}

Next ==
    \/ Tick
    \/ Return
    \/ \E issuer \in Issuers, url \in Urls : Add(issuer, url, MaxBundles)
    \/ \E issuer \in Issuers, doc \in Docs : AddKb(issuer, doc, MaxBundles)
    \/ \E use \in Uses, key_type \in KeyTypes, issuer \in Issuers :
          Get(use, key_type, issuer, JarEndpoints, {0})
    \/ \E var \in {"verify", "decrypt"}, part \in Issuers :
          XKeys(var, part, JarEndpoints, {0})
    \/ \E issuer \in Issuers, key_type \in KeyTypes \ {""},
          key \in {NoKey} \cup Secrets : RemoveKey(issuer, key_type, key)
    \/ \E issuer \in Issuers, idx \in 1..MaxBundles, typ \in KeyTypes :
          Select(issuer, idx, typ, JarEndpoints, {0})
    \/ \E issuer \in Issuers, idx \in 1..MaxBundles :
          Update(issuer, idx, JarEndpoints, {0})

Spec == Init /\ [][Next]_vars

\* One remote KeyBundle (held by a jar under one issuer), every answer of
\* its source and every delay.
NextKB ==
    \/ Tick
    \/ Return
    \/ Add(IssX, HttpUrl, 1)
    \/ \E typ \in KeyTypes : Select(IssX, 1, typ, Endpoints, Delays)
    \/ Update(IssX, 1, Endpoints, Delays)
    \/ \E key_type \in KeyTypes \ {""} : RemoveKey(IssX, key_type, NoKey)
    \/ \E use \in Uses : Get(use, "", IssX, Endpoints, Delays)

SpecKB == Init /\ [][NextKB]_vars

\* A KeyJar of the holder and one issuer whose bundles come from every kind
\* of source: a URL, a JWK file, a list in memory, an RSA key file, a
\* secret, provider metadata, and the output of jwks().
JF == [Inst("EC", "sig", "f", NoKey, "", "")
         EXCEPT !.crv = "P-256", !.x = "x1", !.y = "y1"]
DocEC == <<JF>>

RegEndpoints ==
    {ep \in Endpoints : ep.etag = "" /\ ep.cc = ""
                          /\ (ep.mode = "error" \/ ep.doc = DocAB)}

RegIssuers == {Self, IssX}

NextReg ==
    \/ Return
    \/ \E issuer \in RegIssuers, url \in {HttpUrl, FileUrl} :
          Add(issuer, url, MaxBundles)
    \/ \E issuer \in RegIssuers, doc \in {DocC, DocEC} :
          AddKb(issuer, doc, MaxBundles)
    \/ \E issuer \in RegIssuers, usage \in {<<"sig">>, <<"enc", "sig">>} :
          AddHmac(issuer, StrKey("s1"), usage, MaxBundles)
    \/ \E issuer \in RegIssuers, usage \in {<<"sig">>, <<"sig", "enc">>} :
          AddLocal(issuer, "rsa", usage, MaxBundles)
    \/ \E pcr \in {NoUri, WithUri(HttpUrl)}, issuer \in RegIssuers,
          replace \in BOOLEAN : LoadKeys(pcr, issuer, replace, MaxBundles)
    \/ \E issuer \in RegIssuers, key_type \in {"RSA", "hmac"} :
          RemoveKey(issuer, key_type, NoKey)
    \/ \E issuer \in RegIssuers, idx \in 1..MaxBundles :
          Select(issuer, idx, "", RegEndpoints, {0})
    \/ \E issuer \in RegIssuers, idx \in 1..MaxBundles :
          Update(issuer, idx, RegEndpoints, {0})
    \/ \E issuer \in RegIssuers, idx \in 1..MaxBundles :
          Jwks(issuer, idx, RegEndpoints, {0})
    \/ \E issuer \in RegIssuers : FromJwks(issuer, MaxBundles)
    \/ \E use \in {"sig", "enc"}, issuer \in RegIssuers :
          Get(use, "", issuer, RegEndpoints, {0})

SpecReg == Init /\ [][NextReg]_vars

\* Two threads call get(typ) / update() on the one remote KeyBundle of a
\* jar at the same time.  The code takes no lock, so the threads interleave
\* between any two statements; a step below is one statement of
\* KeyBundle.get, _uptodate, update, do_remote or do_keys (one round of its
\* loop), executed on the bundle both threads share.
TheBundle == issuer_keys[IssX][1]

\* thread t goes to statement pc, its other locals as in loc
Goes(t, loc) == threads' = [threads EXCEPT ![t] = loc]

\* a step of thread t at statement pc that leaves the bundle alone
Local(t, pc) ==
    /\ last = Idle
    /\ IssX \in DOMAIN issuer_keys /\ issuer_keys[IssX] # <<>>
    /\ threads[t].pc = pc

\* the caller enters KeyBundle.get(typ)
T_Get(t, typ) ==
    /\ Local(t, "idle")
    /\ Goes(t, [IdleThread EXCEPT !.pc = "uptodate", !.op = "get",
                                  !.typ = typ])
    /\ UNCHANGED <<issuer_keys, now, last, revoked>>

\* the caller enters KeyBundle.update()
T_Update(t) ==
    /\ Local(t, "idle")
    /\ Goes(t, [IdleThread EXCEPT !.pc = "update", !.op = "update"])
    /\ UNCHANGED <<issuer_keys, now, last, revoked>>

\* _uptodate: "if self.remote: if time.time() > self.time_out:"
T_Uptodate(t) ==
    /\ Local(t, "uptodate")
    /\ Goes(t, [threads[t] EXCEPT !.pc =
                  IF is_not_new_list(TheBundle.keys)
                  THEN IF Stale(TheBundle, now) THEN "update" ELSE "return"
                  ELSE IF TheBundle.remote THEN "update" ELSE "return"])
    /\ UNCHANGED <<issuer_keys, now, last, revoked>>

\* update: "if self.source: self._keys = []" (the bundle is remote)
T_Clear(t) ==
    /\ Local(t, "update")
    /\ Goes(t, [threads[t] EXCEPT
                  !.pc = IF TheBundle.source # "" THEN "request" ELSE "done",
                  !.old = TheBundle.keys])
    /\ issuer_keys' = [issuer_keys EXCEPT ![IssX][1].keys =
                         IF TheBundle.source # "" THEN <<>> ELSE @]
    /\ UNCHANGED <<now, last, revoked>>

\* do_remote: request("GET", self.source, ...) is sent, with the validator
\* the bundle holds now
T_Send(t) ==
    /\ Local(t, "request")
    /\ Goes(t, [threads[t] EXCEPT !.pc = "wait", !.fetched = TRUE])
    /\ UNCHANGED <<issuer_keys, now, last, revoked>>

\* the bundle after the statements of do_remote that follow request(), up
\* to the call of do_keys
answered(b, r, t) ==
    IF r.raised = "" /\ r.status_code \in {200, 304}
    THEN [b EXCEPT !.time_out = t + b.cache_time, !.refreshed_at = t,
                   !.failed = FALSE]
    ELSE [b EXCEPT !.failed = TRUE]

\* where a thread goes when request() gave r
after_answer(r) ==
    IF r.raised # "" THEN "done"
    ELSE IF r.status_code = 200 THEN "do_keys" ELSE "return_or_done"

\* request() returns r (or raises), "self.time_out = time.time() + ..."
T_Answer(t, EP, DL) ==
    /\ Local(t, "wait")
    /\ \E ep \in EP, d \in DL :
         /\ Goes(t, [threads[t] EXCEPT
                       !.r = request(ep, TheBundle.etag),
                       !.doc = request(ep, TheBundle.etag).keys,
                       !.raised = request(ep, TheBundle.etag).raised,
                       !.pc = after_answer(request(ep, TheBundle.etag))])
         /\ issuer_keys' = [issuer_keys EXCEPT ![IssX][1] =
                              answered(@, request(ep, @.etag), Later(now, d))]
         /\ now' = Later(now, d)
    /\ UNCHANGED <<last, revoked>>

\* do_keys: one round of "for inst in keys", and after the loop the two
\* try blocks of do_remote that read the headers
T_DoKeys(t) ==
    /\ Local(t, "do_keys")
    /\ IF threads[t].doc = <<>>
       THEN /\ Goes(t, [threads[t] EXCEPT !.pc = "return_or_done"])
            /\ issuer_keys' = [issuer_keys EXCEPT
                 ![IssX][1].etag =
                     IF threads[t].r.Etag # "" THEN threads[t].r.Etag ELSE @,
                 ![IssX][1].cache_control =
                     IF threads[t].r.CacheControl # ""
                     THEN threads[t].r.CacheControl ELSE @]
       ELSE IF lower(Head(threads[t].doc).kty) \notin K2C
       THEN /\ Goes(t, [threads[t] EXCEPT !.pc = "done",
                                          !.raised = "KeyError"])
            /\ UNCHANGED issuer_keys
       ELSE /\ Goes(t, [threads[t] EXCEPT !.doc = Tail(@)])
            /\ issuer_keys' = [issuer_keys EXCEPT ![IssX][1].keys =
                 Append(@, dc(K2Cnew(lower(Head(threads[t].doc).kty),
                                     Head(threads[t].doc))))]
    /\ UNCHANGED <<now, last, revoked>>

\* a thread between "self._keys = []" and the end of do_keys
Refreshing(u) == threads[u].pc \in {"request", "wait", "do_keys"}

\* update() returns; in get: "return [k for k in self._keys if ...]" /
\* "return self._keys"
T_Return(t) ==
    /\ Local(t, "return_or_done") \/ Local(t, "return")
    /\ Goes(t, [threads[t] EXCEPT
                  !.pc = "done",
                  !.during = IF threads[t].op # "get" THEN {}
                             ELSE {[old |-> threads[u].old, r |-> threads[u].r] :
                                     u \in {v \in Threads \ {t} : Refreshing(v)}},
                  !.ret = IF threads[t].op # "get" THEN <<>>
                          ELSE IF threads[t].typ # ""
                          THEN OfKind(TheBundle.keys, lower(threads[t].typ))
                          ELSE TheBundle.keys])
    /\ UNCHANGED <<issuer_keys, now, last, revoked>>

\* the caller is done with the value
T_Done(t) ==
    /\ Local(t, "done")
    /\ Goes(t, IdleThread)
    /\ UNCHANGED <<issuer_keys, now, last, revoked>>

MTEndpoints ==
    {ep \in Endpoints : ep.mode = "ok" /\ ep.doc = DocAB /\ ep.etag = ""
                          /\ ep.cc = ""}
        \cup {Quiet}

NextMT ==
    \/ Tick
    \/ Return
    \/ Add(IssX, HttpUrl, 1)
    \/ \E t \in Threads : T_Get(t, "")
    \/ \E t \in Threads : T_Update(t)
    \/ \E t \in Threads : T_Uptodate(t)
    \/ \E t \in Threads : T_Clear(t)
    \/ \E t \in Threads : T_Send(t)
    \/ \E t \in Threads : T_Answer(t, MTEndpoints, {0})
    \/ \E t \in Threads : T_DoKeys(t)
    \/ \E t \in Threads : T_Return(t)
    \/ \E t \in Threads : T_Done(t)

SpecMT == Init /\ [][NextMT]_vars

\* Key objects a caller constructs from keyword arguments, holds in a
\* bundle and reconciles with dc().
ECMaterial == [mt |-> "ec", e |-> <<>>, n |-> <<>>, v |-> "p1"]

\* the keyword arguments of the keys: every variant, with and without
\* material, with and without n / e (crv, x, y).  "AAM" is a non-minimal
\* n; an RSA key given both material and n, e is given those of the material
KeyInsts ==
    {Inst("rsa", "sig", "", NoKey, n, e) :
        n \in {"", "Iw", "AAM"}, e \in {"", "AQAB", "Aw"}}
    \cup {Inst("rsa", "sig", "", FileKey, "", ""),
          Inst("rsa", "sig", "", FileKey, "Iw", "AQAB")}
    \cup {[Inst("EC", "sig", "", key, "", "")
             EXCEPT !.crv = c[1], !.x = c[2], !.y = c[3]] :
            key \in {NoKey, ECMaterial},
            c \in {<<"", "", "">>, <<"P-256", "x1", "y1">>}}
    \cup {Inst("hmac", "sig", "", key, "", "") :
            key \in {NoKey, StrKey("s1")}}

\* KeyBundle.append
KeyBundle_append(b, key) == [b EXCEPT !.keys = Append(@, key)]

\* kb = KeyBundle(); kb.append(K2C[kty](**inst)); add_kb(issuer, kb)
NewKey(issuer, inst, max) ==
    /\ last = Idle
    /\ NBundles(issuer_keys) < max
    /\ Changed("new_key", issuer, NoKey, <<inst>>,
               added(issuer_keys, issuer,
                     [b |-> KeyBundle_append(NewBundle,
                                             K2Cnew(lower(inst.kty), inst)),
                      raised |-> ""]))

\* dc() on the i-th key of the idx-th bundle of an issuer; the call record
\* keeps the key as it was before the call
Dc(issuer, idx, i) ==
    /\ last = Idle
    /\ issuer \in DOMAIN issuer_keys
    /\ idx \in 1..Len(issuer_keys[issuer])
    /\ i \in 1..Len(issuer_keys[issuer][idx].keys)
    /\ issuer_keys' = [issuer_keys EXCEPT ![issuer][idx].keys[i] = dc(@)]
    /\ last' = [Call("dc", "", "", issuer, idx, NoKey, "", EmptyDict, <<>>,
                     <<>>)
                  EXCEPT !.before = <<issuer_keys[issuer][idx].keys[i]>>,
                         !.args = <<i>>]
    /\ UNCHANGED <<now, threads, revoked>>

\* A KeyJar holding one bundle of one key, of every variant, built by the
\* caller or decoded from a JWK dictionary.
NextKey ==
    \/ Return
    \/ \E issuer \in RegIssuers, inst \in KeyInsts : NewKey(issuer, inst, 1)
    \/ \E issuer \in RegIssuers, inst \in KeyInsts :
          AddKb(issuer, <<inst>>, 1)
    \/ \E issuer \in RegIssuers, key_type \in {"rsa", "EC", "hmac"} :
          RemoveKey(issuer, key_type, NoKey)
    \/ \E issuer \in RegIssuers : Dc(issuer, 1, 1)

SpecKey == Init /\ [][NextKey]_vars

\* A KeyJar of one issuer, registered and addressed with or without the
\* trailing slash, whose bundles come from a URL and from lists in memory.
\* The revocations of a kind for an identifier the jar holds are followed.
RevIssuers == {IssX, IssXSlash}

RevEndpoints ==
    {ep \in Endpoints : ep.etag = "" /\ ep.cc = "" /\ ep.mode # "down"}

NextRev ==
    \/ Tick
    \/ Return
    \/ \E issuer \in RevIssuers : Add(issuer, HttpUrl, MaxBundles)
    \/ \E issuer \in RevIssuers, doc \in {DocAB, DocC} :
          AddKb(issuer, doc, MaxBundles)
    \/ \E issuer \in RevIssuers \cap DOMAIN issuer_keys,
          key_type \in {"RSA", "hmac"} : Revoke(issuer, key_type)
    \/ \E use \in Uses, key_type \in KeyTypes, issuer \in RevIssuers :
          Get(use, key_type, issuer, RevEndpoints, {0})
    \/ \E issuer \in RevIssuers, idx \in 1..MaxBundles :
          Select(issuer, idx, "", RevEndpoints, {0})
    \/ \E issuer \in RevIssuers, idx \in 1..MaxBundles :
          Update(issuer, idx, RevEndpoints, {0})

SpecRev == Init /\ [][NextRev]_vars

(***************************************************************************)
(* Properties.  They speak about the call made last and are stated with    *)
(* the definitions below, which do not use the operators of the model.     *)
(***************************************************************************)
\* the reads of the last call that are read accesses (select / keys / jwks)
ReadAccesses ==
    IF last.op \in {"select", "get", "verify", "decrypt", "jwks"}
    THEN {last.reads[i] : i \in 1..Len(last.reads)}
    ELSE {}

\* the reads and forced updates of the last call
Refreshes == {last.reads[i] : i \in 1..Len(last.reads)}

\* a refresh that failed: a status other than 200 / 304 or no answer at all
Failed(r) == r.fetched = 1 /\ r.status \notin {200, 304}

\* the keys a document decodes to, in document order
Decoded(doc) ==
    [i \in 1..Len(doc) |->
        LET j == doc[i]
            kty == lower(j.kty)
        IN  [cls |-> CASE kty = "rsa" -> "RSA_key" [] kty = "ec" -> "EC_key"
                       [] OTHER -> "HMAC_key",
             kty |-> kty, alg |-> j.alg, use |-> j.use, kid |-> j.kid,
             key |-> IF kty = "rsa"
                     THEN [mt |-> "rsa", v |-> "",
                           e |-> long_to_mpi(base64_to_long(j.e)),
                           n |-> long_to_mpi(base64_to_long(j.n))]
                     ELSE j.key,
             n |-> j.n, e |-> j.e, crv |-> j.crv, x |-> j.x, y |-> j.y]]

\* C1: a stale select() on a remote bundle holding N >= 1 keys whose refresh
\* fails returns normally, and returns the N keys it held, in order.
C1_FailOpen ==
    last.op = "select" /\ last.key_type = "" =>
        \A r \in ReadAccesses :
            (r.pre.remote /\ Len(r.pre.keys) >= 1 /\ Failed(r)) =>
                (last.raised = "" /\ last.ret = r.pre.keys)

\* C2: a refresh answered 304 leaves the key list as it was and sets
\* expires_at to now + cache_ttl_seconds.
C2_NotModifiedPreserves ==
    \A r \in Refreshes :
        r.status = 304 =>
            /\ r.post.keys = r.pre.keys
            /\ r.post.time_out = now + r.pre.cache_time

\* C3: a read access within cache_ttl_seconds of the last 200 / 304 answer
\* sends no request; a later one sends exactly one.
C3_FreshnessGating ==
    \A r \in ReadAccesses :
        (r.pre.remote /\ r.pre.refreshed_at > 0) =>
            /\ r.t <= r.pre.refreshed_at + r.pre.cache_time => r.fetched = 0
            /\ r.t > r.pre.refreshed_at + r.pre.cache_time => r.fetched = 1

C3_Witness ==
    /\ last.op = "select"
    /\ \E r \in ReadAccesses :
          /\ r.pre.refreshed_at > 0
          /\ r.t > r.pre.refreshed_at + r.pre.cache_time
          /\ r.fetched = 1

\* C4: a refresh answered 200 that completes leaves exactly the decoded keys
\* of the document, in document order, sets expires_at to now +
\* cache_ttl_seconds, and takes etag / cache_control from the headers the
\* answer carries, keeping the previous value of a header it does not carry.
C4_SuccessReplaces ==
    \A r \in Refreshes :
        (r.status = 200 /\ r.raised = "") =>
            /\ r.post.keys = Decoded(last.ep.doc)
            /\ r.post.time_out = now + r.pre.cache_time
            /\ r.post.etag =
                  IF last.ep.etag # "" THEN last.ep.etag ELSE r.pre.etag
            /\ r.post.cache_control =
                  IF last.ep.cc # "" THEN last.ep.cc ELSE r.pre.cache_control

C4_Witness ==
    /\ last.op = "select"
    /\ \E r \in Refreshes :
          /\ r.status = 200 /\ r.raised = ""
          /\ r.pre.keys # <<>>
          /\ r.post.keys # r.pre.keys
          /\ r.pre.etag # "" /\ last.ep.etag = ""
          /\ r.post.etag = r.pre.etag

\* the issuer identifier with its trailing slash toggled
Toggled(I) ==
    IF I[Len(I)] = "/" THEN SubSeq(I, 1, Len(I) - 1) ELSE I \o <<"/">>

\* the dict key a lookup for issuer I is to use: I itself when registered,
\* else I with the slash toggled (the holder's "" has no variant)
Registered(I) ==
    IF I \in DOMAIN issuer_keys \/ I = Self THEN I ELSE Toggled(I)

\* the canonical usage of a key that serves a usage
Canonical(use) ==
    CASE use = "ver" -> "sig" [] use = "dec" -> "enc" [] OTHER -> use

\* all keys of a list of bundles, bundle by bundle
RECURSIVE Flatten(_)
Flatten(bs) == IF bs = <<>> THEN <<>> ELSE Head(bs).keys \o Flatten(Tail(bs))

\* the material of the keys of bs with the given canonical use and kind
MaterialOf(bs, use, kty) ==
    LET ks == SelectSeq(Flatten(bs),
                        LAMBDA k : k.use = use /\ k.kty = kty)
    IN  [i \in 1..Len(ks) |-> ks[i].key]

\* what a lookup in the bundles bs is to return
Resolved(bs, use, key_type) ==
    IF bs = <<>> THEN EmptyDict
    ELSE IF key_type # ""
    THEN [k \in {key_type} |-> MaterialOf(bs, Canonical(use), lower(key_type))]
    ELSE [k \in {kty \in K2C : MaterialOf(bs, Canonical(use), kty) # <<>>} |->
            MaterialOf(bs, Canonical(use), k)]

\* C5: a lookup for a non-empty issuer I reads the bundles registered under
\* I when there are some, else those registered under I with its trailing
\* slash toggled, and returns what they resolve to.
C5_TrailingSlash ==
    (last.op = "get" /\ last.issuer # Self) =>
        LET at == Registered(last.issuer)
        IN  IF at \in DOMAIN issuer_keys
            THEN /\ \A r \in ReadAccesses : r.at = at
                 /\ last.raised = "" =>
                       /\ Len(last.reads) = Len(issuer_keys[at])
                       /\ last.res = Resolved(issuer_keys[at], last.use,
                                              last.key_type)
            ELSE last.reads = <<>> /\ last.res = EmptyDict

C5_Witness ==
    /\ last.op = "get" /\ last.raised = ""
    /\ last.issuer = IssX
    /\ IssX \notin DOMAIN issuer_keys
    /\ IssXSlash \in DOMAIN issuer_keys
    /\ \E k \in DOMAIN last.res : last.res[k] # <<>>

\* C6: "dec" resolves as "enc" and "ver" as "sig"; the result holds, per
\* kind, the material of exactly the keys whose use is the canonical usage
\* (and whose kind is the filter, if given), in bundle order and then key
\* order; keys with another use yield nothing.
C6_UsageAliasing ==
    (last.op = "get" /\ last.raised = ""
        /\ Registered(last.issuer) \in DOMAIN issuer_keys) =>
        LET bs == issuer_keys[Registered(last.issuer)]
            use == IF last.use \in {"enc", "dec"} THEN "enc" ELSE "sig"
            kinds == IF last.key_type # "" THEN {last.key_type}
                     ELSE {kty \in K2C :
                             \E i \in 1..Len(bs) : \E j \in 1..Len(bs[i].keys) :
                                /\ bs[i].keys[j].kty = kty
                                /\ bs[i].keys[j].use = use}
        IN  /\ DOMAIN last.res = IF bs = <<>> THEN {} ELSE kinds
            /\ \A k \in DOMAIN last.res :
                  last.res[k] = MaterialOf(bs, use, lower(k))

C6_Witness ==
    /\ last.op = "get" /\ last.raised = "" /\ last.use = "dec"
    /\ \E k \in DOMAIN last.res : last.res[k] # <<>>
    /\ \E r \in ReadAccesses : \E i \in 1..Len(r.post.keys) :
          r.post.keys[i].use = "sig"

\* the list a dict holds under a key, empty when it holds none
ListOf(res, kty) == IF kty \in DOMAIN res THEN res[kty] ELSE <<>>

\* C7: verify_keys / decrypt_keys return, per kind, the counterpart's
\* resolved keys followed by the holder's, none dropped and none merged.
C7_MergeOrdering ==
    (last.op \in {"verify", "decrypt"} /\ last.raised = "") =>
        LET at == Registered(last.issuer)
            theirs == IF at \in DOMAIN issuer_keys
                      THEN Resolved(issuer_keys[at], last.use, "")
                      ELSE EmptyDict
            mine == Resolved(issuer_keys[Self], last.use, "")
        IN  /\ DOMAIN last.res = DOMAIN theirs \cup DOMAIN mine
            /\ \A kty \in DOMAIN last.res :
                  last.res[kty] = ListOf(theirs, kty) \o ListOf(mine, kty)

C7_Witness ==
    /\ last.op = "verify" /\ last.raised = "" /\ last.issuer = IssX
    /\ "rsa" \in DOMAIN last.res
    /\ Len(last.res["rsa"]) = 2
    /\ last.res["rsa"][1] = last.res["rsa"][2]

\* C8: a remove_key that takes the last keys of an issuer, leaving it
\* without bundles, leaves the issuer out of the issuer map.
C8_RevocationPrunesIssuer ==
    (last.op = "remove_key" /\ Flatten(last.before) # <<>>) =>
        ~(contains(issuer_keys, last.issuer)
            /\ issuer_keys[last.issuer] = <<>>)

\* C9: after remove_key no bundle of the issuer holds a key of the kind
\* matching the material, and no bundle of the issuer is empty.
C9_RemoveReachesEveryBundle ==
    (last.op = "remove_key" /\ last.issuer \in DOMAIN issuer_keys) =>
        \A i \in 1..Len(issuer_keys[last.issuer]) :
            LET b == issuer_keys[last.issuer][i]
            IN  /\ b.keys # <<>>
                /\ \A j \in 1..Len(b.keys) :
                      ~(/\ b.keys[j].kty = lower(last.key_type)
                        /\ (last.key = NoKey \/ b.keys[j].key = last.key))

\* C10: a lookup for an issuer without a bundle list (under the identifier
\* or its trailing-slash variant) returns an empty result and does not
\* raise; so do verify_keys / decrypt_keys when the holder has none.
C10_MissingIssuerNeverRaises ==
    /\ (last.op = "get" /\ Registered(last.issuer) \notin DOMAIN issuer_keys)
          => (last.raised = "" /\ last.res = EmptyDict)
    /\ (last.op \in {"verify", "decrypt"} /\ last.reads = <<>>)
          => last.raised = ""

\* a document with an entry whose kty is not rsa, ec or hmac
Unsupported(doc) ==
    \E i \in 1..Len(doc) : lower(doc[i].kty) \notin {"rsa", "ec", "hmac"}

\* C11: a refresh answered 200 with a document that holds an entry of an
\* unsupported kind fails with an error and leaves no key of that document
\* in the bundle: the key list is the one before the refresh, or empty.
C11_UnsupportedKindAllOrNothing ==
    \A r \in Refreshes :
        (r.status = 200 /\ Unsupported(last.ep.doc)) =>
            /\ r.raised # ""
            /\ r.post.keys \in {<<>>, r.pre.keys}

\* the attributes a serialized and decoded key is to share with the key
SameKey(k, k2) ==
    /\ k2.kty = k.kty /\ k2.use = k.use /\ k2.kid = k.kid
    /\ k.kty = "rsa" => (k2.n = k.n /\ k2.e = k.e)
    /\ k.kty = "ec" => (k2.crv = k.crv /\ k2.x = k.x /\ k2.y = k.y)
    /\ k.kty = "hmac" => k2.key = k.key

\* the bundle added last under an issuer
Newest(I) == issuer_keys[I][Len(issuer_keys[I])]

\* C12: decoding the serialized keys of a bundle yields, key by key, keys of
\* the same kind, use and kid and the same kind-specific fields (n, e for
\* RSA; crv, x, y for EC; the secret for HMAC).
C12_RoundTrip ==
    last.op = "from_jwks" =>
        /\ last.raised = ""
        /\ Len(Newest(last.issuer).keys) = Len(last.before[1].keys)
        /\ \A i \in 1..Len(last.before[1].keys) :
              SameKey(last.before[1].keys[i], Newest(last.issuer).keys[i])

\* the list of bundles the jar held under an issuer before the last call
Before(I) == IF I \in DOMAIN last.jar THEN last.jar[I] ELSE <<>>

\* C13: add_hmac(issuer, secret, usages) returns normally and adds, after
\* the keys the issuer had, one HMAC key with the secret per usage, in the
\* order of usages; every other issuer keeps its list, and no other entry
\* appears.
C13_RegisterSymmetric ==
    last.op = "add_hmac" =>
        /\ last.raised = ""
        /\ DOMAIN issuer_keys = DOMAIN last.jar \cup {last.issuer}
        /\ \A I \in DOMAIN last.jar \ {last.issuer} :
              issuer_keys[I] = last.jar[I]
        /\ LET was == Flatten(Before(last.issuer))
               is == Flatten(issuer_keys[last.issuer])
           IN  /\ Len(is) = Len(was) + Len(last.args)
               /\ SubSeq(is, 1, Len(was)) = was
               /\ \A i \in 1..Len(last.args) :
                     /\ is[Len(was) + i].kty = "hmac"
                     /\ is[Len(was) + i].use = last.args[i]
                     /\ is[Len(was) + i].key = last.key

\* C14: load_keys with metadata that holds no "jwks_uri" raises nothing and
\* leaves the issuer map as it was, whatever replace is.
C14_NoUriIsNoOp ==
    (last.op = "load_keys" /\ "jwks_uri" \notin DOMAIN last.args[1]) =>
        /\ last.raised = ""
        /\ issuer_keys = last.jar

\* a bundle no request was ever sent for and answered
Unfetched(b) == b.time_out = 0 /\ b.etag = "" /\ b.refreshed_at = 0

\* C16: a request is sent only for a remote bundle and only during a read
\* accessor (select, keys via get / verify_keys / decrypt_keys, jwks) or an
\* update() of that bundle; a bundle that is not remote never gets a
\* time_out or etag; a URL registered by add or load_keys is not fetched by
\* the registration, and remove_key leaves the cache state of the bundles.
C16_DemandDrivenRemoteOnly ==
    /\ \A r \in Refreshes :
          /\ r.fetched = 1 =>
                /\ r.pre.remote
                /\ last.op \in {"select", "get", "verify", "decrypt", "jwks",
                                "update"}
          /\ ~r.pre.remote =>
                /\ r.post.time_out = r.pre.time_out
                /\ r.post.etag = r.pre.etag
    /\ \A I \in DOMAIN issuer_keys : \A i \in 1..Len(issuer_keys[I]) :
          ~issuer_keys[I][i].remote => Unfetched(issuer_keys[I][i])
    /\ (\/ last.op = "add"
        \/ last.op = "load_keys" /\ "jwks_uri" \in DOMAIN last.args[1]) =>
          (last.raised = "" =>
              /\ Unfetched(issuer_keys[last.issuer][Len(issuer_keys[last.issuer])])
              /\ issuer_keys[last.issuer][Len(issuer_keys[last.issuer])].remote
                    => issuer_keys[last.issuer][Len(issuer_keys[last.issuer])].keys = <<>>)
    /\ (last.op = "remove_key" /\ last.issuer \in DOMAIN issuer_keys) =>
          \A i \in 1..Len(issuer_keys[last.issuer]) :
              \E j \in 1..Len(last.before) :
                  /\ issuer_keys[last.issuer][i].time_out = last.before[j].time_out
                  /\ issuer_keys[last.issuer][i].etag = last.before[j].etag
                  /\ issuer_keys[last.issuer][i].refreshed_at
                        = last.before[j].refreshed_at

C16_Witness ==
    /\ last.op = "update"
    /\ \E r \in Refreshes :
          /\ ~r.pre.remote /\ r.pre.source # ""
          /\ r.fetched = 0
          /\ r.post.keys # <<>>
    /\ \E I \in DOMAIN issuer_keys : \E i \in 1..Len(issuer_keys[I]) :
          issuer_keys[I][i].remote /\ issuer_keys[I][i].refreshed_at > 0

\* C17: a lookup that finds no matching key returns what a lookup for an
\* issuer never registered returns, the empty dict, with and without a
\* kind filter.
C17_UnknownIssuerIndistinguishable ==
    (/\ last.op = "get" /\ last.raised = ""
     /\ \A k \in DOMAIN last.res : last.res[k] = <<>>) =>
        last.res = EmptyDict

\* C20: a read access of a remote bundle sends a request exactly when the
\* key list is empty or now >= expires_at; a read access of a bundle that
\* is not remote sends none and leaves the bundle as it is.
C20_EnsureFreshTrigger ==
    \A r \in ReadAccesses :
        /\ r.pre.remote =>
              (r.fetched = 1 <=> (r.pre.keys = <<>> \/ r.t >= r.pre.time_out))
        /\ ~r.pre.remote => (r.fetched = 0 /\ r.post = r.pre)

\* C15: a refresh that fails leaves expires_at as it was; a read access of
\* a bundle whose last refresh failed, made while now is past expires_at,
\* sends a request again; and an answer 200 or 304 leaves the bundle fresh
\* (now is not past the new expires_at).
C15_FailedRefreshRetries ==
    /\ \A r \in Refreshes :
          /\ Failed(r) => (r.post.time_out = r.pre.time_out /\ r.post.failed)
          /\ (r.fetched = 1 /\ r.status \in {200, 304}) =>
                (~r.post.failed /\ now <= r.post.time_out)
    /\ \A r \in ReadAccesses :
          (r.pre.remote /\ r.pre.failed /\ r.t > r.pre.time_out) =>
              r.fetched = 1

C15_Witness ==
    /\ last.op = "select"
    /\ \E r \in ReadAccesses :
          /\ r.pre.failed /\ r.pre.refreshed_at > 0
          /\ r.t > r.pre.time_out
          /\ r.fetched = 1 /\ r.status = 200 /\ r.raised = ""
          /\ now <= r.post.time_out

\* C18: a get() that returns while another thread refreshes the bundle
\* returns the whole list the bundle held before that refresh, or the whole
\* list of the document that refresh (or its own) was answered with; never
\* an empty or partly filled list.
C18_AtomicReplacement ==
    \A t \in Threads :
        (threads[t].pc = "done" /\ threads[t].op = "get"
            /\ threads[t].raised = "") =>
            \A o \in threads[t].during :
                \/ threads[t].ret = o.old
                \/ o.r.status_code = 200 /\ threads[t].ret = Decoded(o.r.keys)
                \/ /\ threads[t].r.status_code = 200
                   /\ threads[t].ret = Decoded(threads[t].r.keys)

\* C19: at no time are two requests for the bundle under way that were
\* sent by get() calls which found the bundle stale.
C19_SingleInFlightRefresh ==
    Cardinality({t \in Threads :
                   threads[t].pc = "wait" /\ threads[t].op = "get"}) <= 1

\* the serializable fields of a key of a class, those that are set, and
\* whether the key holds material
FieldsOf(k) ==
    CASE k.cls = "RSA_key" -> {"n", "e"}
      [] k.cls = "EC_key" -> {"crv", "x", "y"}
      [] OTHER -> {}

FieldsSet(k) == FieldsOf(k) # {} /\ \A f \in FieldsOf(k) : k[f] # ""
FieldsUnset(k) == \A f \in FieldsOf(k) : k[f] = ""
HasMaterial(k) == k.key # NoKey

\* the key dc() was called on, before and after the call
DcBefore == last.before[1]
DcAfter == issuer_keys[last.issuer][last.idx].keys[last.args[1]]

\* C21: dc() on a key of any variant: with material and no serializable
\* fields, the fields are set afterwards and the material is the same; with
\* the fields and no material, material is present afterwards and the
\* fields are the same; with both or neither, the key is unchanged.
C21_ReconcileCaseAnalysis ==
    last.op = "dc" =>
        /\ (HasMaterial(DcBefore) /\ FieldsUnset(DcBefore)) =>
              /\ DcAfter.key = DcBefore.key
              /\ FieldsOf(DcAfter) # {} => FieldsSet(DcAfter)
        /\ (~HasMaterial(DcBefore) /\ FieldsSet(DcBefore)) =>
              /\ HasMaterial(DcAfter)
              /\ \A f \in FieldsOf(DcBefore) : DcAfter[f] = DcBefore[f]
        /\ (HasMaterial(DcBefore) /\ FieldsSet(DcBefore)) =>
              DcAfter = DcBefore
        /\ (~HasMaterial(DcBefore) /\ FieldsUnset(DcBefore)) =>
              DcAfter = DcBefore

\* the key material of a kind in the dict the last lookup returned
MaterialOfKind(kind) ==
    {k \in DOMAIN last.res : lower(k) = kind /\ last.res[k] # <<>>}

\* C22: while a revocation of a kind for an issuer is in force (remove_key
\* without material has returned and no registration for the issuer was
\* made since), a lookup for the issuer, addressed with or without its
\* trailing slash and for any usage, returns no key material of the kind.
C22_RevocationPersists ==
    last.op = "get" =>
        \A r \in revoked :
            (last.issuer = r.issuer \/ last.issuer = Toggled(r.issuer)) =>
                MaterialOfKind(r.kind) = {}

====
